---- MODULE Spec2Model ----
(***************************************************************************)
(* A model of plot (src/src/main.rs): Event::from_line, which parses one   *)
(* line "(channel, timestamp, note)", and main, which collects the events  *)
(* read from stdin, finds the timestamp range, writes one pixel per event  *)
(* into a 512x128 image and saves it.                                      *)
(*                                                                         *)
(* Text is a sequence of one-character strings.  A u64 does not fit TLC's  *)
(* integers, so a u64 (and an f64 significand) is a Big: four limbs of 20  *)
(* bits, least significant first.  f64 arithmetic is modelled bit-exactly  *)
(* (53-bit significand, round to nearest, ties to even) for the values the *)
(* program can produce.                                                    *)
(***************************************************************************)
EXTENDS Integers, Sequences, FiniteSets, TLC

(***************************************************************************)
(* Multi-limb naturals                                                     *)
(***************************************************************************)
Base == 2^20

BigOf(n) == <<n % Base, n \div Base, 0, 0>>

BigZero == BigOf(0)

BigOne == BigOf(1)

BigAdd(a, b) ==
  LET s1 == a[1] + b[1]
      s2 == a[2] + b[2] + (s1 \div Base)
      s3 == a[3] + b[3] + (s2 \div Base)
      s4 == a[4] + b[4] + (s3 \div Base)
  IN  <<s1 % Base, s2 % Base, s3 % Base, s4 % Base>>

\* a - b, for a >= b
BigSub(a, b) ==
  LET d1 == a[1] - b[1]
      d2 == a[2] - b[2] - (IF d1 < 0 THEN 1 ELSE 0)
      d3 == a[3] - b[3] - (IF d2 < 0 THEN 1 ELSE 0)
      d4 == a[4] - b[4] - (IF d3 < 0 THEN 1 ELSE 0)
  IN  <<d1 % Base, d2 % Base, d3 % Base, d4 % Base>>

BigLt(a, b) ==
  \/ a[4] < b[4]
  \/ a[4] = b[4] /\ a[3] < b[3]
  \/ a[4] = b[4] /\ a[3] = b[3] /\ a[2] < b[2]
  \/ a[4] = b[4] /\ a[3] = b[3] /\ a[2] = b[2] /\ a[1] < b[1]

BigLe(a, b) == ~BigLt(b, a)

\* a * k, for 0 <= k <= 1024
BigMulSmall(a, k) ==
  LET p1 == a[1] * k
      p2 == a[2] * k + (p1 \div Base)
      p3 == a[3] * k + (p2 \div Base)
      p4 == a[4] * k + (p3 \div Base)
  IN  <<p1 % Base, p2 % Base, p3 % Base, p4 % Base>>

\* a \div k, for 1 <= k <= 1024
BigDivSmall(a, k) ==
  LET c4 == a[4]
      c3 == (c4 % k) * Base + a[3]
      c2 == (c3 % k) * Base + a[2]
      c1 == (c2 % k) * Base + a[1]
  IN  <<c1 \div k, c2 \div k, c3 \div k, c4 \div k>>

\* a % k, for 1 <= k <= 1024
BigModSmall(a, k) ==
  ((((((a[4] % k) * Base + a[3]) % k) * Base + a[2]) % k) * Base + a[1]) % k

RECURSIVE BigShl(_, _)
BigShl(a, k) ==
  IF k = 0 THEN a
  ELSE IF k >= 10 THEN BigShl(BigMulSmall(a, 1024), k - 10)
  ELSE BigMulSmall(a, 2^k)

RECURSIVE BigShr(_, _)
BigShr(a, k) ==
  IF k = 0 THEN a
  ELSE IF k >= 10 THEN BigShr(BigDivSmall(a, 1024), k - 10)
  ELSE BigDivSmall(a, 2^k)

\* the number of significant bits of a limb, and of a Big
LimbBits(n) == IF n = 0 THEN 0 ELSE CHOOSE k \in 1..20 : 2^(k-1) <= n /\ n < 2^k

BigBits(a) ==
  IF a[4] # 0 THEN 60 + LimbBits(a[4])
  ELSE IF a[3] # 0 THEN 40 + LimbBits(a[3])
  ELSE IF a[2] # 0 THEN 20 + LimbBits(a[2])
  ELSE LimbBits(a[1])

\* u64::MAX = 2^64 - 1
U64Max == <<Base - 1, Base - 1, Base - 1, 15>>

\* u32::MAX = 2^32 - 1
U32Max == <<Base - 1, 2^12 - 1, 0, 0>>

(***************************************************************************)
(* f64: NaN, an infinity, or (-1)^neg * m * 2^e with m a Big.  The values  *)
(* the program computes lie in [2^-64, 2^64] or are 0, so neither overflow *)
(* nor subnormals arise and the exponent is left unbounded.                *)
(***************************************************************************)
F64NaN == [kind |-> "nan", neg |-> FALSE, m |-> BigZero, e |-> 0]

F64Inf(neg) == [kind |-> "inf", neg |-> neg, m |-> BigZero, e |-> 0]

F64IsZero(a) == a.kind = "fin" /\ a.m = BigZero

\* m * 2^e (plus a nonzero amount below one unit of m when sticky), rounded
\* to a 53-bit significand, to nearest, ties to even
F64Round(neg, m, e, sticky) ==
  LET k == BigBits(m) - 53 IN
  IF k <= 0 THEN [kind |-> "fin", neg |-> neg, m |-> m, e |-> e]
  ELSE LET q    == BigShr(m, k)
           rem  == BigSub(m, BigShl(q, k))
           half == BigShl(BigOne, k - 1)
           up   == \/ BigLt(half, rem)
                   \/ rem = half /\ (sticky \/ q[1] % 2 = 1)
       IN  [kind |-> "fin", neg |-> neg,
            m |-> IF up THEN BigAdd(q, BigOne) ELSE q, e |-> e + k]

\* `t as f64` for a u64 t
U64ToF64(t) == F64Round(FALSE, t, 0, FALSE)

\* the magnitude of an integer-valued finite f64 (e >= 0), as a Big
F64Int(a) == BigShl(a.m, a.e)

\* a - b for f64 values converted from u64 (NaN never arises there)
F64Sub(a, b) ==
  LET x == F64Int(a)
      y == F64Int(b)
  IN  IF BigLe(y, x) THEN F64Round(FALSE, BigSub(x, y), 0, FALSE)
      ELSE F64Round(TRUE, BigSub(y, x), 0, FALSE)

\* n further quotient bits of a long division by d: qr = <<quotient so far,
\* remainder>>, remainder < d
RECURSIVE DivBits(_, _, _)
DivBits(qr, d, n) ==
  IF n = 0 THEN qr
  ELSE LET r2 == BigMulSmall(qr[2], 2)
           q2 == BigMulSmall(qr[1], 2)
       IN  IF BigLe(d, r2)
           THEN DivBits(<<BigAdd(q2, BigOne), BigSub(r2, d)>>, d, n - 1)
           ELSE DivBits(<<q2, r2>>, d, n - 1)

\* mutant: a zero divisor gives an infinity even for 0 / 0
F64DivZeroInf(a, b) ==
  IF F64IsZero(b) THEN F64Inf(a.neg # b.neg)
  ELSE IF F64IsZero(a) THEN [kind |-> "fin", neg |-> a.neg # b.neg, m |-> BigZero, e |-> 0]
  ELSE LET x  == F64Int(a)
           y  == F64Int(b)
           lx == BigBits(x)
           ly == BigBits(y)
           xs == IF ly > lx THEN BigShl(x, ly - lx) ELSE x
           ys == IF lx > ly THEN BigShl(y, lx - ly) ELSE y
           q0 == IF BigLe(ys, xs) THEN BigOne ELSE BigZero
           r0 == IF BigLe(ys, xs) THEN BigSub(xs, ys) ELSE xs
           qr == DivBits(<<q0, r0>>, ys, 56)
       IN  F64Round(a.neg # b.neg, qr[1], lx - ly - 56, qr[2] # BigZero)

\* a / b for finite integer-valued a and b (differences of converted u64)
F64Div(a, b) ==
  IF F64IsZero(b) THEN (IF F64IsZero(a) THEN F64NaN ELSE F64Inf(a.neg # b.neg))
  ELSE IF F64IsZero(a) THEN [kind |-> "fin", neg |-> a.neg # b.neg, m |-> BigZero, e |-> 0]
  ELSE LET x  == F64Int(a)
           y  == F64Int(b)
           lx == BigBits(x)
           ly == BigBits(y)
           \* align the operands: xs / ys lies in (1/2, 2)
           xs == IF ly > lx THEN BigShl(x, ly - lx) ELSE x
           ys == IF lx > ly THEN BigShl(y, lx - ly) ELSE y
           q0 == IF BigLe(ys, xs) THEN BigOne ELSE BigZero
           r0 == IF BigLe(ys, xs) THEN BigSub(xs, ys) ELSE xs
           qr == DivBits(<<q0, r0>>, ys, 56)
       IN  F64Round(a.neg # b.neg, qr[1], lx - ly - 56, qr[2] # BigZero)

\* a * k for a small positive integer k (exact as an f64)
F64MulSmall(a, k) ==
  IF a.kind # "fin" THEN a
  ELSE F64Round(a.neg, BigMulSmall(a.m, k), a.e, FALSE)

\* mutant: the cast rounds to the nearest integer (as f64::round would first)
F64ToU32Nearest(a) ==
  IF a.kind = "nan" THEN BigZero
  ELSE IF a.kind = "inf" THEN (IF a.neg THEN BigZero ELSE U32Max)
  ELSE IF a.neg \/ a.m = BigZero THEN BigZero
  ELSE IF a.e >= 0
       THEN (IF BigBits(a.m) + a.e > 32 THEN U32Max ELSE BigShl(a.m, a.e))
       ELSE (IF 0 - a.e >= 80 THEN BigZero
             ELSE BigShr(BigAdd(a.m, BigShl(BigOne, 0 - a.e - 1)), 0 - a.e))

\* `a as u32`: truncation toward zero, saturating; NaN becomes 0
F64ToU32(a) ==
  IF a.kind = "nan" THEN BigZero
  ELSE IF a.kind = "inf" THEN (IF a.neg THEN BigZero ELSE U32Max)
  ELSE IF a.neg \/ a.m = BigZero THEN BigZero
  ELSE IF a.e >= 0
       THEN (IF BigBits(a.m) + a.e > 32 THEN U32Max ELSE BigShl(a.m, a.e))
       ELSE (IF 0 - a.e >= 80 THEN BigZero ELSE BigShr(a.m, 0 - a.e))

(***************************************************************************)
(* Text and integer parsing                                                *)
(***************************************************************************)
Digits == <<"0", "1", "2", "3", "4", "5", "6", "7", "8", "9">>

IsDigit(ch) == \E i \in 1..10 : Digits[i] = ch

DigitVal(ch) == (CHOOSE i \in 1..10 : Digits[i] = ch) - 1

None == <<>>

Some(v) == <<v>>

\* u8::MAX
U8Max == BigOf(255)

\* the digit loop of str::parse for an unsigned type: checked_mul(10) then
\* checked_add(digit); a non-digit or an overflow is an error (None)
RECURSIVE ParseDigits(_, _, _)
ParseDigits(digits, acc, max) ==
  IF digits = <<>> THEN Some(acc)
  ELSE IF ~IsDigit(Head(digits)) THEN None
  ELSE LET next == BigAdd(BigMulSmall(acc, 10), BigOf(DigitVal(Head(digits))))
       IN  IF BigLt(max, next) THEN None
           ELSE ParseDigits(Tail(digits), next, max)

\* str::parse::<uN>(): empty is an error, a lone sign is an error, a leading
\* "+" is accepted, "-" is not a digit of an unsigned type
ParseUnsigned(src, max) ==
  IF src = <<>> THEN None
  ELSE IF Len(src) = 1 /\ Head(src) \in {"+", "-"} THEN None
  ELSE IF Head(src) = "+" THEN ParseDigits(Tail(src), BigZero, max)
  ELSE ParseDigits(src, BigZero, max)

ParseU8(src) == ParseUnsigned(src, U8Max)

\* mutant: the timestamp parsed with the range of an i64
ParseU64AsI64(src) == ParseUnsigned(src, BigSub(BigShl(BigOne, 63), BigOne))

ParseU64(src) == ParseUnsigned(src, U64Max)

\* the index of the leftmost ", " in s, or 0
FindSep(s) ==
  LET at == {i \in 1..(Len(s) - 1) : s[i] = "," /\ s[i + 1] = " "}
  IN  IF at = {} THEN 0 ELSE CHOOSE i \in at : \A j \in at : i <= j

\* mutant: str::split(", "), which does not stop at n pieces
RECURSIVE SplitAll(_, _)
SplitAll(n, s) ==
  LET i == FindSep(s) IN
  IF i = 0 THEN <<s>>
  ELSE <<SubSeq(s, 1, i - 1)>> \o SplitAll(n, SubSeq(s, i + 2, Len(s)))

\* str::splitn(n, ", ") for n >= 1, collected: at most n pieces, the last one
\* the whole remainder
RECURSIVE SplitN(_, _)
SplitN(n, s) ==
  LET i == FindSep(s) IN
  IF n <= 1 \/ i = 0 THEN <<s>>
  ELSE <<SubSeq(s, 1, i - 1)>> \o SplitN(n - 1, SubSeq(s, i + 2, Len(s)))

\* Iterator::next() as the k-th piece of the split
Piece(pieces, k) == IF k <= Len(pieces) THEN Some(pieces[k]) ELSE None

BadEvent(variant, text) == [variant |-> variant, text |-> text]

Ok(v) == <<"Ok", v>>

Err(e) == <<"Err", e>>

\* split.next().ok_or(Variant(None)).and_then(|v| v.parse().map_err(|_| Variant(Some(v))))
Field(piece, parsed, variant) ==
  IF piece = None THEN Err(BadEvent(variant, None))
  ELSE IF parsed = None THEN Err(BadEvent(variant, piece))
  ELSE Ok(parsed[1])

\* mutant: only the opening parenthesis is looked at
WrappedOpenOnly(line) == line # <<>> /\ Head(line) = "("

\* match (line.chars().next(), line.chars().last()): (Some('('), Some(')'))
Wrapped(line) == line # <<>> /\ Head(line) = "(" /\ line[Len(line)] = ")"

\* the three fields of &line[1..line.len() - 1], in order, with `?` on each
ParseTuple(line) ==
  LET inner     == SubSeq(line, 2, Len(line) - 1)
      split     == SplitN(3, inner)
      p1        == Piece(split, 1)
      p2        == Piece(split, 2)
      p3        == Piece(split, 3)
      channel   == Field(p1, IF p1 = None THEN None ELSE ParseU8(p1[1]), "Channel")
      timestamp == Field(p2, IF p2 = None THEN None ELSE ParseU64(p2[1]), "Timestamp")
      note      == Field(p3, IF p3 = None THEN None ELSE ParseU8(p3[1]), "Note")
  IN  IF channel[1] = "Err" THEN channel
      ELSE IF timestamp[1] = "Err" THEN timestamp
      ELSE IF note[1] = "Err" THEN note
      ELSE Ok([channel |-> channel[2][1], timestamp |-> timestamp[2],
               note |-> note[2][1]])

\* Event::from_line
from_line(line) ==
  IF Wrapped(line) THEN ParseTuple(line) ELSE Err(BadEvent("Entire", line))

(***************************************************************************)
(* main                                                                    *)
(***************************************************************************)
\* the palette, each entry's bytes as written (most significant first)
pal == <<
  <<170, 170, 170, 255>>, <<0, 85, 0, 255>>, <<0, 170, 0, 255>>, <<0, 255, 0, 255>>,
  <<0, 0, 255, 255>>, <<0, 85, 255, 255>>, <<0, 170, 255, 255>>, <<0, 255, 255, 255>>,
  <<255, 0, 0, 255>>, <<255, 85, 0, 255>>, <<255, 170, 0, 255>>, <<255, 255, 0, 255>>,
  <<255, 0, 255, 255>>, <<255, 85, 255, 255>>, <<255, 170, 255, 255>>, <<255, 255, 255, 255>> >>

ImageWidth == 512

ImageHeight == 128

\* u32::to_le_bytes().into(): the Rgba pixel made of the entry's bytes, least
\* significant first
Colour(entry) == <<entry[4], entry[3], entry[2], entry[1]>>

\* Rgba::to_rgb(), which DynamicImage::put_pixel applies for an Rgb8 image
ToRgb(rgba) == <<rgba[1], rgba[2], rgba[3]>>

\* the pixels of DynamicImage::new_rgb8 are zero
BlankPixel == <<0, 0, 0>>

RECURSIVE BigMin(_)
BigMin(ts) ==
  IF Len(ts) = 1 THEN ts[1]
  ELSE LET m == BigMin(Tail(ts)) IN IF BigLe(ts[1], m) THEN ts[1] ELSE m

RECURSIVE BigMax(_)
BigMax(ts) ==
  IF Len(ts) = 1 THEN ts[1]
  ELSE LET m == BigMax(Tail(ts)) IN IF BigLt(m, ts[1]) THEN ts[1] ELSE m

Timestamps(evs) == [i \in 1..Len(evs) |-> evs[i].timestamp]

\* mutant: scaled by the width, not by the last column
XCoordFullWidth(timestamp, min, max, width) ==
  F64ToU32(F64MulSmall(F64Div(F64Sub(U64ToF64(timestamp), min), F64Sub(max, min)),
                       width))

\* ((event.timestamp as f64 - min) / (max - min)) * (width - 1) as f64) as u32
XCoord(timestamp, min, max, width) ==
  F64ToU32(F64MulSmall(F64Div(F64Sub(U64ToF64(timestamp), min), F64Sub(max, min)),
                       width - 1))

VARIABLES
  stdin,    \* the lines of standard input: Ok(line) or Err(<<>>) (a read failure)
  pos,      \* how many of them the iterator has consumed
  events,   \* the events collected so far
  stderr,   \* the diagnostics printed
  pc,       \* "ingest", "raster", "save" or "done"
  range,    \* <<min, max>> as f64 once computed, <<>> before
  image,    \* the pixels written so far: <<x, y>> -> rgb; all others are blank
  xs,       \* the x computed for each event the loop has taken, in order
  outcome,  \* "running", then "Ok", "Err" (main returned) or "panic"
  file      \* the content of output.png: <<>> while not written, else <<image>>

vars == <<stdin, pos, events, stderr, pc, range, image, xs, outcome, file>>

GetPixel(img, x, y) == IF <<x, y>> \in DOMAIN img THEN img[<<x, y>>] ELSE BlankPixel

\* mutant: a pixel already written is kept
PutPixelKeep(img, x, y, rgb) ==
  [p \in DOMAIN img \cup {<<x, y>>} |-> IF p \in DOMAIN img THEN img[p] ELSE rgb]

PutPixel(img, x, y, rgb) ==
  [p \in DOMAIN img \cup {<<x, y>>} |-> IF p = <<x, y>> THEN rgb ELSE img[p]]

EmptyImage == [p \in {} |-> BlankPixel]

InitWith(input) ==
  /\ stdin = input
  /\ pos = 0
  /\ events = <<>>
  /\ stderr = <<>>
  /\ pc = "ingest"
  /\ range = <<>>
  /\ image = EmptyImage
  /\ xs = <<>>
  /\ outcome = "running"
  /\ file = <<>>

\* mutant: the first line that does not parse ends the reading
ReadLineAbort ==
  /\ pc = "ingest"
  /\ pos < Len(stdin)
  /\ LET l == stdin[pos + 1] IN
     IF l[1] = "Err"
     THEN pos' = pos + 1 /\ UNCHANGED <<events, stderr>>
     ELSE LET r == from_line(l[2]) IN
          IF r[1] = "Ok"
          THEN pos' = pos + 1 /\ events' = Append(events, r[2]) /\ UNCHANGED stderr
          ELSE /\ pos' = Len(stdin)
               /\ stderr' = Append(stderr, <<"error", r[2]>>)
               /\ UNCHANGED events
  /\ UNCHANGED <<stdin, pc, range, image, xs, outcome, file>>

\* one item of stdin().lines() through both filter_maps
ReadLine ==
  /\ pc = "ingest"
  /\ pos < Len(stdin)
  /\ pos' = pos + 1
  /\ LET l == stdin[pos + 1] IN
     IF l[1] = "Err"
     THEN UNCHANGED <<events, stderr>>
     ELSE LET r == from_line(l[2]) IN
          IF r[1] = "Ok"
          THEN events' = Append(events, r[2]) /\ UNCHANGED stderr
          ELSE stderr' = Append(stderr, <<"error", r[2]>>) /\ UNCHANGED events
  /\ UNCHANGED <<stdin, pc, range, image, xs, outcome, file>>

\* mutant: no early return when there is no event
TimeRangeNoReturn ==
  /\ pc = "ingest"
  /\ pos = Len(stdin)
  /\ IF events = <<>>
     THEN /\ stderr' = Append(stderr, <<"no data provided; aborting">>)
          /\ UNCHANGED <<range, outcome>>
     ELSE /\ range' = <<U64ToF64(BigMin(Timestamps(events))),
                        U64ToF64(BigMax(Timestamps(events)))>>
          /\ UNCHANGED <<stderr, outcome>>
  /\ pc' = "raster"
  /\ UNCHANGED <<stdin, pos, events, image, xs, file>>

\* the end of input: collect, new_rgb8, the minimum and maximum timestamp
TimeRange ==
  /\ pc = "ingest"
  /\ pos = Len(stdin)
  /\ IF events = <<>>
     THEN /\ stderr' = Append(stderr, <<"no data provided; aborting">>)
          /\ outcome' = "Ok"
          /\ pc' = "done"
          /\ UNCHANGED range
     ELSE /\ range' = <<U64ToF64(BigMin(Timestamps(events))),
                        U64ToF64(BigMax(Timestamps(events)))>>
          /\ pc' = "raster"
          /\ UNCHANGED <<stderr, outcome>>
  /\ UNCHANGED <<stdin, pos, events, image, xs, file>>

\* the bounds check of pal[event.channel as usize]
PalIndexOk(channel) == channel < Len(pal)

\* mutant: only the column is checked
InBoundsXOnly(x, y) == BigLt(x, BigOf(ImageWidth))

\* the bounds check of put_pixel: x < width and y < height
InBounds(x, y) == BigLt(x, BigOf(ImageWidth)) /\ y < ImageHeight

\* one iteration of the loop over the events
Raster ==
  /\ pc = "raster"
  /\ Len(xs) < Len(events)
  /\ LET event == events[Len(xs) + 1]
         x     == XCoord(event.timestamp, range[1], range[2], ImageWidth)
         y     == event.note
     IN  /\ xs' = Append(xs, x)
         /\ IF ~PalIndexOk(event.channel)
            THEN \* index out of bounds
                 /\ outcome' = "panic" /\ pc' = "done" /\ UNCHANGED image
            ELSE IF ~InBounds(x, y)
            THEN \* image index out of bounds
                 /\ outcome' = "panic" /\ pc' = "done" /\ UNCHANGED image
            ELSE /\ image' = PutPixel(image, x[1], y, ToRgb(Colour(pal[event.channel + 1])))
                 /\ UNCHANGED <<outcome, pc>>
  /\ UNCHANGED <<stdin, pos, events, stderr, range, file>>

\* the loop is over; image.resize returns a new image, which is dropped
Resize ==
  /\ pc = "raster"
  /\ Len(xs) = Len(events)
  /\ pc' = "save"
  /\ UNCHANGED <<stdin, pos, events, stderr, range, image, xs, outcome, file>>

\* image.save("output.png")?; Ok(())
Save ==
  /\ pc = "save"
  /\ \E saved \in BOOLEAN :
       IF saved THEN file' = <<image>> /\ outcome' = "Ok"
       ELSE outcome' = "Err" /\ UNCHANGED file
  /\ pc' = "done"
  /\ UNCHANGED <<stdin, pos, events, stderr, range, image, xs>>

Next == ReadLine \/ TimeRange \/ Raster \/ Resize \/ Save

(***************************************************************************)
(* Inputs                                                                  *)
(***************************************************************************)
\* the decimal numeral of a Big, as Display prints it
RECURSIVE Dec(_)
Dec(a) ==
  IF BigLt(a, BigOf(10)) THEN <<Digits[a[1] + 1]>>
  ELSE Dec(BigDivSmall(a, 10)) \o <<Digits[BigModSmall(a, 10) + 1]>>

Sep == <<",", " ">>

EventLine(c, t, n) == <<"(">> \o Dec(BigOf(c)) \o Sep \o Dec(t) \o Sep \o Dec(BigOf(n)) \o <<")">>

MaxLines == 3

SeqsUpTo(S, n) == UNION {[1..k -> S] : k \in 0..n}

\* Spec: whole runs over in-range, out-of-range and malformed lines and a
\* read failure
PipeLines == {
  Ok(EventLine(0, BigZero, 0)),
  Ok(EventLine(1, BigZero, 0)),
  Ok(EventLine(0, BigOne, 0)),
  Ok(EventLine(2, BigOf(2), 127)),
  Ok(EventLine(16, BigOne, 0)),
  Ok(EventLine(0, BigOne, 128)),
  Ok(<<"(", "0", ",", " ", "1", ")">>),
  Ok(<<"0", ",", " ", "1", ",", " ", "2">>),
  Err(<<>>) }

Init == \E input \in SeqsUpTo(PipeLines, MaxLines) : InitWith(input)

Spec == Init /\ [][Next]_vars

\* SpecTime: runs over in-range events that differ in their timestamps
TwoPow53 == <<0, 0, 2^13, 0>>

TimeVals == {BigZero, BigOne, BigOf(2), BigOf(3), BigOf(7),
             BigAdd(TwoPow53, BigOne), BigSub(U64Max, BigOne), U64Max}

TimeLines == {Ok(EventLine(0, t, 0)) : t \in TimeVals}

InitTime == \E input \in SeqsUpTo(TimeLines, MaxLines) : InitWith(input)

SpecTime == InitTime /\ [][Next]_vars

\* SpecParse: runs over one line each, well-formed or not
MaxRaw == 3

U8Edge == {0, 9, 16, 128, 255}

U64Edge == {BigZero, BigOf(10), BigSub(BigShl(BigOne, 31), BigOne), BigShl(BigOne, 32), TwoPow53,
            BigAdd(TwoPow53, BigOne), BigSub(U64Max, BigOne), U64Max}

WellFormedCases ==
  {<<c, BigOf(77), 5>> : c \in 0..255} \cup {<<5, BigOf(77), n>> : n \in 0..255}
    \cup (U8Edge \X U64Edge \X U8Edge)

RawChars == {"(", ")", ",", " ", "1"}

RawLines == SeqsUpTo(RawChars, MaxRaw)

Text256 == <<"2", "5", "6">>

TextTooBig == Dec(U64Max) \o <<"0">>

Segs == {<<>>, <<"7">>, Text256, <<"x">>, <<"+", "7">>, <<"-", "1">>, <<" ", "7">>,
         <<"7", ",", "8">>, TextTooBig}

FewSegs == {<<"7">>, <<"x">>}

RECURSIVE Join(_)
Join(segs) ==
  IF Len(segs) = 1 THEN segs[1] ELSE segs[1] \o Sep \o Join(Tail(segs))

SegLists ==
  UNION {[1..k -> Segs] : k \in 1..3} \cup {l \o <<e>> : l \in [1..3 -> FewSegs], e \in FewSegs}

\* a segment list with or without either delimiter
SegLines ==
  {open \o Join(l) \o close : open \in {<<"(">>, <<>>}, close \in {<<")">>, <<>>}, l \in SegLists}

ParseLines ==
  {EventLine(w[1], w[2], w[3]) : w \in WellFormedCases} \cup RawLines \cup SegLines

InitParse == \E line \in ParseLines : InitWith(<<Ok(line)>>)

SpecParse == InitParse /\ [][Next]_vars

(***************************************************************************)
(* Claims about Event::from_line, checked under SpecParse                  *)
(***************************************************************************)
EventOf(w) == [channel |-> w[1], timestamp |-> w[2], note |-> w[3]]

WellFormedTable == {[line |-> EventLine(w[1], w[2], w[3]), event |-> EventOf(w)] : w \in WellFormedCases}

\* C1: a line "(c, t, n)" of decimal numerals, c and n in 0..255, t a u64,
\* separated by ", ", is parsed to the event (c, t, n): it is collected and
\* no diagnostic is printed
C1_WellFormedParses ==
  \A w \in WellFormedTable :
    (pos >= 1 /\ stdin[1] = Ok(w.line)) => events = <<w.event>> /\ stderr = <<>>

C1_Witness ==
  /\ pos = 1
  /\ stdin[1] = Ok(EventLine(255, U64Max, 255))
  /\ events = <<EventOf(<<255, U64Max, 255>>)>>

Unwrapped(line) == line = <<>> \/ line[1] # "(" \/ line[Len(line)] # ")"

FieldVariants == {"Channel", "Timestamp", "Note"}

\* C2: a line whose first character is not "(" or whose last is not ")" (the
\* empty line, "(" and ")" included) fails as Entire carrying the line
\* unchanged and yields no event; a Channel, Timestamp or Note error is only
\* produced for a line with both delimiters
C2_UnwrappedIsEntire ==
  (pos >= 1 /\ stdin[1][1] = "Ok") =>
    LET line == stdin[1][2] IN
      /\ Unwrapped(line) =>
           /\ events = <<>>
           /\ stderr # <<>>
           /\ stderr[1] = <<"error", BadEvent("Entire", line)>>
      /\ (stderr # <<>> /\ stderr[1][1] = "error" /\ stderr[1][2].variant \in FieldVariants)
           => ~Unwrapped(line)

C2_Witness ==
  /\ pos = 1
  /\ stdin[1] = Ok(<<"(">>)
  /\ events = <<>>
  /\ stderr = <<<<"error", BadEvent("Entire", <<"(">>)>>>>

SepAt(s) == {i \in 1..(Len(s) - 1) : s[i] = "," /\ s[i + 1] = " "}

HasSep(s) == SepAt(s) # {}

\* every way of cutting s at one or two of its separators, or not at all
Cuts(s) ==
  {<<s>>}
    \cup {<<SubSeq(s, 1, i - 1), SubSeq(s, i + 2, Len(s))>> : i \in SepAt(s)}
    \cup {<<SubSeq(s, 1, p[1] - 1), SubSeq(s, p[1] + 2, p[2] - 1), SubSeq(s, p[2] + 2, Len(s))>> :
            p \in {q \in SepAt(s) \X SepAt(s) : q[2] >= q[1] + 2}}

\* left to right, at most three segments, the third the whole remainder
IsSplit3(segs) ==
  /\ \A k \in 1..(Len(segs) - 1) : ~HasSep(segs[k])
  /\ Len(segs) < 3 => ~HasSep(segs[Len(segs)])

FieldName(k) == <<"Channel", "Timestamp", "Note">>[k]

FieldParse(k, text) == IF k = 2 THEN ParseU64(text) ELSE ParseU8(text)

Failing(segs) == {k \in 1..3 : k > Len(segs) \/ FieldParse(k, segs[k]) = None}

\* C3: the interior of a wrapped line has exactly one left-to-right split on
\* ", " into at most three segments, the third being the remainder; if a
\* segment is missing or does not parse as u8, u64, u8, the line fails with
\* the variant of the first such field, carrying the segment, or None when
\* the segment is missing; otherwise it yields an event
C3_FirstFailingField ==
  (pos >= 1 /\ stdin[1][1] = "Ok" /\ ~Unwrapped(stdin[1][2])) =>
    LET line  == stdin[1][2]
        inner == SubSeq(line, 2, Len(line) - 1)
        cands == {c \in Cuts(inner) : IsSplit3(c)}
    IN  /\ Cardinality(cands) = 1
        /\ LET segs == CHOOSE c \in cands : TRUE
               bad  == Failing(segs)
           IN  IF bad = {} THEN Len(events) = 1 /\ stderr = <<>>
               ELSE LET k == CHOOSE i \in bad : \A j \in bad : i <= j IN
                    /\ events = <<>>
                    /\ stderr # <<>>
                    /\ stderr[1] = <<"error",
                         BadEvent(FieldName(k), IF k > Len(segs) THEN None ELSE Some(segs[k]))>>

C3_Witness ==
  /\ pos = 1
  /\ stdin[1] = Ok(<<"(", "7", ",", " ", "7", ",", " ", "7", ",", " ", "x", ")">>)
  /\ stderr = <<<<"error", BadEvent("Note", Some(<<"7", ",", " ", "x">>))>>>>

(***************************************************************************)
(* Claims about whole runs, checked under Spec                             *)
(***************************************************************************)
ItemValid(item) == item[1] = "Ok" /\ from_line(item[2])[1] = "Ok"

ItemBad(item) == item[1] = "Ok" /\ from_line(item[2])[1] = "Err"

RECURSIVE ValidEvents(_)
ValidEvents(items) ==
  IF items = <<>> THEN <<>>
  ELSE (IF ItemValid(Head(items)) THEN <<from_line(Head(items)[2])[2]>> ELSE <<>>)
         \o ValidEvents(Tail(items))

RECURSIVE Diagnostics(_)
Diagnostics(items) ==
  IF items = <<>> THEN <<>>
  ELSE (IF ItemBad(Head(items)) THEN <<<<"error", from_line(Head(items)[2])[2]>>>> ELSE <<>>)
         \o Diagnostics(Tail(items))

IsError(d) == d[1] = "error"

\* C4: at every point the collected events are the parse results of the
\* valid lines read so far, in their order, and the diagnostics are those of
\* the invalid lines read so far, one each, in their order; the later stages
\* start only when every line has been read
C4_IngestionKeepsOrder ==
  LET consumed == SubSeq(stdin, 1, pos) IN
    /\ events = ValidEvents(consumed)
    /\ SelectSeq(stderr, IsError) = Diagnostics(consumed)
    /\ pc # "ingest" => pos = Len(stdin)

C4_Witness ==
  /\ pc = "raster"
  /\ pos = 3
  /\ ItemValid(stdin[1]) /\ ItemBad(stdin[2]) /\ ItemValid(stdin[3])
  /\ events = <<from_line(stdin[1][2])[2], from_line(stdin[3][2])[2]>>
  /\ Len(stderr) = 1

NoData == <<"no data provided; aborting">>

\* C5: with no valid event after ingestion the run has ended, successfully,
\* with "no data" as its last diagnostic, no pixel written, no x computed and
\* no file written; the loop and the save are never reached
C5_NoDataIsSuccess ==
  (pc # "ingest" /\ events = <<>>) =>
    /\ pc = "done"
    /\ outcome = "Ok"
    /\ stderr # <<>> /\ stderr[Len(stderr)] = NoData
    /\ image = EmptyImage
    /\ xs = <<>>
    /\ file = <<>>

C5_Witness ==
  /\ pc = "done"
  /\ events = <<>>
  /\ Len(stdin) = 2 /\ ItemBad(stdin[1]) /\ ItemBad(stdin[2])
  /\ Len(stderr) = 3
  /\ outcome = "Ok"

SameTimestamps == \A i, j \in 1..Len(events) : events[i].timestamp = events[j].timestamp

OutOfRange(e) == e.channel >= 16 \/ e.note >= 128

\* C6: when every event has the same timestamp, min = max, every x computed
\* is 0, and the loop stops early only at an event whose channel or note is
\* out of range, never because of the division
C6_EqualTimestampsAtZero ==
  (pc # "ingest" /\ events # <<>> /\ SameTimestamps) =>
    /\ range[1] = range[2]
    /\ \A i \in 1..Len(xs) : xs[i] = BigZero
    /\ outcome = "panic" => OutOfRange(events[Len(xs)])
    /\ (pc = "done" /\ outcome # "panic") => Len(xs) = Len(events)

C6_Witness ==
  /\ pc = "done"
  /\ outcome = "Ok"
  /\ Len(events) = 3
  /\ \A i \in 1..3 : events[i].timestamp = BigOne
  /\ xs = <<BigZero, BigZero, BigZero>>
  /\ file # <<>>

\* the events whose pixel has been written, and where
Written == IF outcome = "panic" THEN Len(xs) - 1 ELSE Len(xs)

CoordOf(i) == <<xs[i][1], events[i].note>>

PaletteColour(channel) == ToRgb(Colour(pal[channel + 1]))

\* C8: every pixel some rasterized event maps to holds exactly the palette
\* colour of the last such event, and every other pixel is blank
C8_LastWriterWins ==
  /\ DOMAIN image = {CoordOf(i) : i \in 1..Written}
  /\ \A p \in DOMAIN image :
       LET at   == {i \in 1..Written : CoordOf(i) = p}
           last == CHOOSE i \in at : \A j \in at : j <= i
       IN  GetPixel(image, p[1], p[2]) = PaletteColour(events[last].channel)
  /\ \A x \in {0, 255, 511} : \A y \in {0, 127} :
       <<x, y>> \notin {CoordOf(i) : i \in 1..Written} => GetPixel(image, x, y) = BlankPixel

C8_Witness ==
  /\ pc = "done"
  /\ file = <<image>>
  /\ Len(events) = 2
  /\ events[1].channel = 0 /\ events[2].channel = 1
  /\ CoordOf(1) = <<0, 0>> /\ CoordOf(2) = <<0, 0>>
  /\ PaletteColour(0) # PaletteColour(1)
  /\ GetPixel(image, 0, 0) = PaletteColour(1)

\* C9: an event with channel >= 16 or note >= 128 stops the run with a panic
\* at that event: it is the last event the loop takes, no pixel is written
\* for it, every pixel written lies inside 512x128 and comes from an
\* in-range event, and no file is written in a run that holds such an event
C9_OutOfRangeFails ==
  /\ \A i \in 1..Len(xs) :
       OutOfRange(events[i]) => i = Len(xs) /\ outcome = "panic" /\ pc = "done"
  /\ \A p \in DOMAIN image :
       /\ p[1] \in 0..511 /\ p[2] \in 0..127
       /\ \E i \in 1..Len(xs) : ~OutOfRange(events[i]) /\ CoordOf(i) = p
  /\ (\E i \in 1..Len(events) : OutOfRange(events[i])) =>
       /\ file = <<>>
       /\ pc \in {"ingest", "raster", "done"}
       /\ pc = "done" => outcome = "panic"

C9_Witness ==
  /\ outcome = "panic"
  /\ Len(events) = 3
  /\ Len(xs) = 2
  /\ events[2].note = 128
  /\ DOMAIN image = {CoordOf(1)}
  /\ file = <<>>

(***************************************************************************)
(* Claims about the x coordinate, checked under SpecTime                   *)
(***************************************************************************)
TMin == BigMin(Timestamps(events))

TMax == BigMax(Timestamps(events))

\* |a - b|
BigDist(a, b) == IF BigLe(b, a) THEN BigSub(a, b) ELSE BigSub(b, a)

\* x is the exact quotient (t - TMin) / (TMax - TMin) * 511 rounded to the
\* nearest integer (either neighbour at a tie)
IsNearest(x, t) ==
  LET span == BigSub(TMax, TMin)
      d    == BigSub(t, TMin)
  IN  BigLe(BigMulSmall(BigDist(BigMulSmall(span, x[1]), BigMulSmall(d, 511)), 2), span)

\* x is the floor of the exact quotient (t - TMin) / (TMax - TMin) * 511
IsFloor(x, t) ==
  LET span == BigSub(TMax, TMin)
      d    == BigSub(t, TMin)
  IN  /\ BigLe(BigMulSmall(span, x[1]), BigMulSmall(d, 511))
      /\ BigLt(BigMulSmall(d, 511), BigMulSmall(span, x[1] + 1))

Below2Pow32(t) == BigLt(t, BigShl(BigOne, 32))

AllBelow2Pow32 == \A i \in 1..Len(events) : Below2Pow32(events[i].timestamp)

\* C7 as claimed, already for timestamps below 2^32: with max > min each x is
\* the exact quotient rounded to the nearest integer
C7_RoundedToNearest ==
  (pc # "ingest" /\ events # <<>> /\ BigLt(TMin, TMax) /\ AllBelow2Pow32) =>
    \A i \in 1..Len(xs) :
      /\ BigLt(xs[i], BigOf(512))
      /\ IsNearest(xs[i], events[i].timestamp)

\* the x of the timestamps 0, 50, 100 in an image 101 wide
Example101 ==
  <<XCoord(BigZero, U64ToF64(BigZero), U64ToF64(BigOf(100)), 101),
    XCoord(BigOf(50), U64ToF64(BigZero), U64ToF64(BigOf(100)), 101),
    XCoord(BigOf(100), U64ToF64(BigZero), U64ToF64(BigOf(100)), 101)>>

\* C7 as amended: with max > min and every timestamp below 2^32, each x is
\* the floor of the exact quotient (the cast truncates), the minimum at 0 and
\* the maximum at 511; and with width 101 the timestamps 0, 50, 100 map to
\* 0, 50, 100 (which does not depend on the state: it is evaluated in the
\* runs over the empty input only)
C7_Truncated ==
  /\ stdin = <<>> => Example101 = <<BigZero, BigOf(50), BigOf(100)>>
  /\ (pc # "ingest" /\ events # <<>> /\ BigLt(TMin, TMax) /\ AllBelow2Pow32) =>
       \A i \in 1..Len(xs) :
         /\ BigLt(xs[i], BigOf(512))
         /\ IsFloor(xs[i], events[i].timestamp)
         /\ events[i].timestamp = TMin => xs[i] = BigZero
         /\ events[i].timestamp = TMax => xs[i] = BigOf(511)

C7_Witness ==
  /\ pc = "done"
  /\ Len(events) = 3
  /\ events[1].timestamp = BigZero
  /\ events[2].timestamp = BigOf(2)
  /\ events[3].timestamp = BigOf(3)
  /\ xs = <<BigZero, BigOf(340), BigOf(511)>>

\* C10: every x computed lies in 0..511 and x is monotone in the timestamp,
\* so that no run over in-range channels and notes panics
C10_XInRangeMonotone ==
  /\ \A i \in 1..Len(xs) : BigLt(xs[i], BigOf(512))
  /\ \A i, j \in 1..Len(xs) :
       BigLe(events[i].timestamp, events[j].timestamp) => BigLe(xs[i], xs[j])
  /\ outcome # "panic"

C10_Witness ==
  /\ pc = "done"
  /\ Len(events) = 3
  /\ events[1].timestamp = BigSub(U64Max, BigOne)
  /\ events[2].timestamp = U64Max
  /\ events[3].timestamp = BigAdd(TwoPow53, BigOne)
  /\ xs = <<BigOf(511), BigOf(511), BigZero>>
  /\ outcome = "Ok"
====
